---- MODULE Spec2Model ----
(***************************************************************************)
(* Skill-gap assessment (backend/services/skills_engine.py) and budgeted   *)
(* learning-path synthesis (backend/services/learning_engine.py).          *)
(*                                                                         *)
(* Three specifications share the variables below:                         *)
(*   SpecPrio    _prioritize_skill_gaps applied to drawn inputs            *)
(*   Spec        generate_personalized_learning_path against the stores    *)
(*   SpecSkills  analyze_work_artifacts / update_assessment_status         *)
(***************************************************************************)
EXTENDS Integers, Sequences, FiniteSets, TLC

VARIABLES
    prIn,        \* SpecPrio: the skill_gaps argument of _prioritize_skill_gaps
    prAi,        \* SpecPrio: what ai_client.generate_response does in that call
    prOut,       \* SpecPrio: the outcome of the call
    prDone,      \* SpecPrio: TRUE once the call has been made
    content,     \* learning_content table, rows in ascending created_at order
    paths,       \* learning_paths table: the stored paths, in insertion order
    userGaps,    \* skill_gaps rows of the user, as get_user_skill_gaps returns them
    aiRank,      \* what the AI Text Service does with a ranking prompt
    aiContent,   \* what the AI Text Service does with a content prompt, per skill
    request,     \* arguments of generate_personalized_learning_path
    nextId,      \* next value uuid.uuid4() hands out
    calls,       \* number of generate_personalized_learning_path calls made
    storeFault,  \* the Content Store operation that raises, if any
    result,      \* outcome of the latest generate_personalized_learning_path call
    assessments, \* skills_assessments table: assessment id -> row (or NoRow)
    gapRows,     \* skill_gaps table, rows in insertion order
    aiAnalysis,  \* what the AI Text Service does with an analysis prompt
    pc,          \* per worker: where its analyze_work_artifacts call stands
    wk,          \* per worker: the locals of its analyze_work_artifacts call
    skLast,      \* the latest finished Skills Engine operation and its outcome
    skCalls,     \* number of analyze_work_artifacts calls started
    skUpdates,   \* number of direct update_assessment_status calls made
    fnIn,        \* SpecDifficulty: the arguments of the difficulty computation
    fnOut        \* SpecDifficulty: what the computation gave

prioVars == <<prIn, prAi, prOut, prDone>>
learnVars == <<content, paths, userGaps, aiRank, aiContent, request, nextId, calls,
               storeFault, result>>

skillsVars == <<assessments, gapRows, aiAnalysis, pc, wk, skLast, skCalls, skUpdates>>

fnVars == <<fnIn, fnOut>>

vars == <<prIn, prAi, prOut, prDone,
          content, paths, userGaps, aiRank, aiContent, request, nextId, calls,
          storeFault, result,
          assessments, gapRows, aiAnalysis, pc, wk, skLast, skCalls, skUpdates,
          fnIn, fnOut>>

NULL == "NULL"

(***************************************************************************)
(* Bounds                                                                  *)
(***************************************************************************)
MaxPrioGaps == 3
MaxRank == 2
MaxGaps == 2
MaxCalls == 2
MaxEntries == 2
MaxAnalyses == 2
MaxStatusUpdates == 1

(***************************************************************************)
(* Sequence helpers                                                        *)
(***************************************************************************)
Range(s) == {s[i] : i \in 1..Len(s)}

SeqsUpTo(S, n) == UNION {[1..k -> S] : k \in 0..n}

RECURSIVE SumDur(_)
SumDur(s) == IF s = <<>> THEN 0 ELSE Head(s).estimated_duration + SumDur(Tail(s))

(***************************************************************************)
(* SkillGap.gap_size.  The model field is Optional[str] (small, medium,    *)
(* large, or None); the learning engine and its tests also use gaps whose  *)
(* gap_size is a number.  A value is a tagged record so that Python's      *)
(* comparison and multiplication can be modelled per type.                 *)
(***************************************************************************)
StrSize(s) == [kind |-> "str", str |-> s, num |-> 0]
NumSize(n) == [kind |-> "num", str |-> "", num |-> n]
NoneSize == [kind |-> "none", str |-> "", num |-> 0]

GapSizeNames == {"small", "medium", "large"}
GapSizeNumbers == {1, 3}
GapSizes == {StrSize(s) : s \in GapSizeNames} \cup {NumSize(n) : n \in GapSizeNumbers}
                \cup {NoneSize}

\* Code points of the gap_size strings, as Python compares str values.
CodePoints(s) ==
    CASE s = "small" -> <<115, 109, 97, 108, 108>>
      [] s = "medium" -> <<109, 101, 100, 105, 117, 109>>
      [] s = "large" -> <<108, 97, 114, 103, 101>>
      [] OTHER -> <<>>

RECURSIVE LexLess(_, _)
LexLess(a, b) ==
    IF b = <<>> THEN FALSE
    ELSE IF a = <<>> THEN TRUE
    ELSE IF Head(a) # Head(b) THEN Head(a) < Head(b)
    ELSE LexLess(Tail(a), Tail(b))

\* Python "a < b" on two gap_size values of the same, orderable type.
SizeLess(a, b) ==
    IF a.kind = "num" THEN a.num < b.num
    ELSE LexLess(CodePoints(a.str), CodePoints(b.str))

\* Python raises TypeError when "<" meets None or a str/number mix; a sort of
\* two or more keys performs such a comparison whenever one exists.
SortRaises(keys) ==
    /\ Len(keys) >= 2
    /\ \/ \E i \in 1..Len(keys) : keys[i].kind = "none"
       \/ \E i, j \in 1..Len(keys) : keys[i].kind # keys[j].kind

SkillNames == {"programming", "user_research"}
UnknownSkill == "unknown_skill"

Gap(id, name, size) ==
    [id |-> id, skill_name |-> name, gap_size |-> size,
     current_level |-> "beginner", target_level |-> "intermediate"]

(***************************************************************************)
(* LearningEngine._prioritize_skill_gaps                                   *)
(***************************************************************************)
\* What ai_client.generate_response plus json.loads yield for the ranking
\* prompt: the call raises, the text is not JSON, or a list of names.
RankingOutcomes ==
    {[kind |-> "raise", names |-> <<>>], [kind |-> "unparsable", names |-> <<>>]}
        \cup {[kind |-> "ranking", names |-> n] :
                n \in SeqsUpTo(SkillNames \cup {UnknownSkill}, MaxRank)}

\* sorted(..., key=lambda x: x.gap_size, reverse=True): stable, descending.
RECURSIVE InsertDesc(_, _)
InsertDesc(sorted, g) ==
    IF sorted = <<>> THEN <<g>>
    ELSE IF SizeLess(Head(sorted).gap_size, g.gap_size) THEN <<g>> \o sorted
    ELSE <<Head(sorted)>> \o InsertDesc(Tail(sorted), g)

RECURSIVE SortedByGapSizeDesc(_, _)
SortedByGapSizeDesc(done, rest) ==
    IF rest = <<>> THEN done
    ELSE SortedByGapSizeDesc(InsertDesc(done, Head(rest)), Tail(rest))

\* gap_dict = {gap.skill_name: gap for gap in skill_gaps}: the last gap wins.
GapDictHas(skill_gaps, name) == \E i \in 1..Len(skill_gaps) : skill_gaps[i].skill_name = name

GapDict(skill_gaps, name) ==
    LET idx == {i \in 1..Len(skill_gaps) : skill_gaps[i].skill_name = name}
        last == CHOOSE i \in idx : \A j \in idx : j <= i
    IN skill_gaps[last]

\* for skill_name in priority_order: if skill_name in gap_dict: append
RECURSIVE RankedGaps(_, _)
RankedGaps(skill_gaps, names) ==
    IF names = <<>> THEN <<>>
    ELSE IF GapDictHas(skill_gaps, Head(names))
         THEN <<GapDict(skill_gaps, Head(names))>> \o RankedGaps(skill_gaps, Tail(names))
         ELSE RankedGaps(skill_gaps, Tail(names))

\* for gap in skill_gaps: if gap not in prioritized_gaps: append
RECURSIVE AppendRemaining(_, _)
AppendRemaining(prioritized, rest) ==
    IF rest = <<>> THEN prioritized
    ELSE IF Head(rest) \in Range(prioritized)
         THEN AppendRemaining(prioritized, Tail(rest))
         ELSE AppendRemaining(Append(prioritized, Head(rest)), Tail(rest))

\* The except branch: the fallback sort, which itself raises TypeError when
\* the gap_size keys cannot be compared.
PrioritizeFallback(skill_gaps) ==
    IF SortRaises([i \in 1..Len(skill_gaps) |-> skill_gaps[i].gap_size])
    THEN [status |-> "raised", gaps |-> <<>>, aiCalls |-> 1, path |-> "fallback"]
    ELSE [status |-> "returned", gaps |-> SortedByGapSizeDesc(<<>>, skill_gaps),
          aiCalls |-> 1, path |-> "fallback"]

prioritize_skill_gaps(skill_gaps, ai) ==
    IF ai.kind = "ranking"
    THEN [status |-> "returned",
          gaps |-> AppendRemaining(RankedGaps(skill_gaps, ai.names), skill_gaps),
          aiCalls |-> 1, path |-> "ai"]
    ELSE PrioritizeFallback(skill_gaps)

(***************************************************************************)
(* Learning content rows and candidates                                    *)
(***************************************************************************)
Some(v) == [has |-> TRUE, v |-> v]
None == [has |-> FALSE, v |-> 0]

Row(id, skills, difficulty, duration, type) ==
    [id |-> id, skills_covered |-> skills, difficulty |-> difficulty,
     estimated_duration |-> duration, content_type |-> type,
     description |-> "catalog", content_text |-> "body", created_at |-> 0]

\* skills_covered LIKE '%skill_name%': the name occurs inside the stored JSON
\* text, so a skill whose name contains skill_name matches as well.
SubstringPairs == {<<"research", "user_research">>}

LikeMatches(skill_name, skills_covered) ==
    \E s \in skills_covered : s = skill_name \/ <<skill_name, s>> \in SubstringPairs

\* LIMIT 10 of the search query
SearchLimit == 10

RECURSIVE Reverse(_)
Reverse(s) == IF s = <<>> THEN <<>> ELSE Append(Reverse(Tail(s)), Head(s))

FirstN(s, n) == IF Len(s) <= n THEN s ELSE SubSeq(s, 1, n)

\* The Content Store operation that raises when called; "none" when the
\* store works.
StoreFaults == {"none", "search", "store_generated", "store_recommendation", "store_path"}

\* _search_existing_content: matching rows, newest first, as content dicts;
\* "except Exception: return []" when the query raises.
search_existing_content(store, skill_name, difficulty, fault) ==
    LET rows == SelectSeq(store, LAMBDA r : /\ LikeMatches(skill_name, r.skills_covered)
                                            /\ r.difficulty = difficulty)
        newest == FirstN(Reverse(rows), SearchLimit)
    IN IF fault = "search" THEN <<>>
       ELSE
       [i \in 1..Len(newest) |->
          [id |-> newest[i].id,
           content_type |-> newest[i].content_type,
           difficulty |-> newest[i].difficulty,
           estimated_duration |-> IF newest[i].estimated_duration = 0
                                  THEN 10 ELSE newest[i].estimated_duration,
           skills_covered |-> newest[i].skills_covered,
           reasoning |-> "existing"]]

\* _select_content_type: content_type_mapping.get(skill_name.lower(), ...)
select_content_type(skill_name) ==
    CASE skill_name = "programming" -> "tutorial"
      [] skill_name = "data_analysis" -> "practical_exercise"
      [] skill_name = "user_research" -> "case_study"
      [] skill_name = "product_strategy" -> "concept_explanation"
      [] skill_name = "stakeholder_management" -> "case_study"
      [] skill_name = "api_development" -> "tutorial"
      [] skill_name = "database_design" -> "practical_exercise"
      [] OTHER -> "concept_explanation"

\* self.micro_learning_duration.get(content_type, 10)
micro_learning_duration(content_type) ==
    CASE content_type = "quick_tip" -> 5
      [] content_type = "concept_explanation" -> 10
      [] content_type = "practical_exercise" -> 15
      [] content_type = "case_study" -> 12
      [] content_type = "tutorial" -> 15
      [] content_type = "quiz" -> 8
      [] OTHER -> 10

LevelNumber(level, default) ==
    CASE level = "beginner" -> 1
      [] level = "intermediate" -> 2
      [] level = "advanced" -> 3
      [] level = "expert" -> 4
      [] OTHER -> default

\* _determine_difficulty_level, for levels that are strings
determine_difficulty_level(current_level, target_level) ==
    LET current_num == LevelNumber(current_level, 1)
        target_num == LevelNumber(target_level, 2)
    IN IF target_num - current_num >= 2 THEN "advanced"
       ELSE IF target_num - current_num = 1 THEN "intermediate"
       ELSE "beginner"

\* _calculate_priority_score, for a gap whose gap_size is a number
calculate_priority_score(c, gap) ==
    gap.gap_size.num * 10
      + (IF c.estimated_duration <= 10 THEN 5
         ELSE IF c.estimated_duration <= 15 THEN 3 ELSE 0)
      + (IF c.difficulty = "intermediate" THEN 3
         ELSE IF c.difficulty = "beginner" THEN 2 ELSE 0)
      + (IF c.content_type \in {"tutorial", "practical_exercise"} THEN 2 ELSE 0)

\* "gap_size * 10" added to a float raises TypeError unless gap_size is a number.
ScoreRaises(gap) == gap.gap_size.kind # "num"

\* list.sort(key=lambda x: x.priority_score, reverse=True): stable, descending.
RECURSIVE InsertByScore(_, _)
InsertByScore(sorted, r) ==
    IF sorted = <<>> THEN <<r>>
    ELSE IF Head(sorted).priority_score < r.priority_score THEN <<r>> \o sorted
    ELSE <<Head(sorted)>> \o InsertByScore(Tail(sorted), r)

RECURSIVE SortByScoreDesc(_, _)
SortByScoreDesc(done, rest) ==
    IF rest = <<>> THEN done
    ELSE SortByScoreDesc(InsertByScore(done, Head(rest)), Tail(rest))

\* A plain INSERT that keeps the row already stored under the id.
InsertKeepingOld(store, row) == Append(store, row)

\* INSERT OR REPLACE INTO learning_content: the row with this id is replaced,
\* and the written row is the newest.
Upsert(store, row) == Append(SelectSeq(store, LAMBDA r : r.id # row.id), row)

\* _store_generated_content
store_generated_content(store, c, now, fault) ==
    IF fault = "store_generated" THEN store \* the exception is only logged
    ELSE
    Upsert(store, [id |-> c.id, skills_covered |-> c.skills_covered,
                   difficulty |-> c.difficulty,
                   estimated_duration |-> c.estimated_duration,
                   content_type |-> c.content_type,
                   description |-> c.reasoning, content_text |-> "body",
                   created_at |-> now])

\* _store_content_recommendation
store_content_recommendation(store, rec, now, fault) ==
    IF fault = "store_recommendation" THEN store \* the exception is only logged
    ELSE
    Upsert(store, [id |-> rec.content_id, skills_covered |-> rec.skills_covered,
                   difficulty |-> rec.difficulty,
                   estimated_duration |-> rec.estimated_duration,
                   content_type |-> rec.content_type,
                   description |-> rec.reasoning, content_text |-> "",
                   created_at |-> now])

(***************************************************************************)
(* LearningEngine: content per gap, budgeting, path assembly               *)
(***************************************************************************)
\* Outcomes of ai_client.generate_response plus json.loads for a content
\* prompt: a usable object, a raised call, or text without the expected shape.
ContentOutcomes == {"ok", "raise", "malformed"}

\* _generate_micro_learning_content; st carries the store and the counters.
generate_micro_learning_content(gap, difficulty, st, ai, now) ==
    LET content_type == select_content_type(gap.skill_name)
        c == [id |-> st.nextId, content_type |-> content_type,
              difficulty |-> difficulty,
              estimated_duration |-> micro_learning_duration(content_type),
              skills_covered |-> {gap.skill_name}, reasoning |-> "generated"]
    IN IF ai[gap.skill_name] = "ok"
       THEN [found |-> <<c>>, fail |-> "none",
             st |-> [st EXCEPT !.store = store_generated_content(st.store, c, now, st.fault),
                               !.nextId = st.nextId + 1,
                               !.aiCalls = st.aiCalls + 1,
                               !.storeErrors = st.storeErrors
                                   + (IF st.fault = "store_generated" THEN 1 ELSE 0)]]
       ELSE [found |-> <<>>, fail |-> ai[gap.skill_name],
             st |-> [st EXCEPT !.aiCalls = st.aiCalls + 1]]

\* The difficulty taken from the levels alone, whatever difficulty is preferred.
DifficultyIgnoringPreference(current_level, target_level, pref) ==
    IF current_level = NULL \/ target_level = NULL
    THEN [raised |-> TRUE, difficulty |-> NULL]
    ELSE [raised |-> FALSE,
          difficulty |-> determine_difficulty_level(current_level, target_level)]

\* difficulty = preferred_difficulty or self._determine_difficulty_level(...):
\* the levels are read only when no preferred difficulty is given, and
\* None.lower() raises AttributeError.
content_difficulty(current_level, target_level, pref) ==
    IF pref # NULL THEN [raised |-> FALSE, difficulty |-> pref]
    ELSE IF current_level = NULL \/ target_level = NULL
         THEN [raised |-> TRUE, difficulty |-> NULL]
         ELSE [raised |-> FALSE,
               difficulty |-> determine_difficulty_level(current_level, target_level)]

Recommendation(c, gap) ==
    [content_id |-> c.id, content_type |-> c.content_type, difficulty |-> c.difficulty,
     estimated_duration |-> c.estimated_duration, skills_covered |-> c.skills_covered,
     priority_score |-> calculate_priority_score(c, gap), reasoning |-> c.reasoning,
     for_gap |-> gap.id]

\* _get_content_for_skill_gap: every exception inside ends in "return []".
get_content_for_skill_gap(gap, pref, st, ai, now) ==
    IF content_difficulty(gap.current_level, gap.target_level, pref).raised
    THEN [recs |-> <<>>, fail |-> "levels", generated |-> FALSE, st |-> st,
          ai_called |-> FALSE, matching |-> 0, in_store |-> TRUE]
    ELSE
      LET difficulty == content_difficulty(gap.current_level, gap.target_level,
                                           pref).difficulty
          existing == search_existing_content(st.store, gap.skill_name, difficulty,
                                              st.fault)
          st1 == [st EXCEPT !.searches = st.searches + 1,
                            !.storeErrors = st.storeErrors
                                + (IF st.fault = "search" THEN 1 ELSE 0)]
          gen == IF existing = <<>>
                 THEN generate_micro_learning_content(gap, difficulty, st1, ai, now)
                 ELSE [found |-> existing, fail |-> "none", st |-> st1]
          cands == gen.found
          \* what the log keeps: whether the AI was called, how many rows the
          \* store holds for the query, whether the candidates are stored
          matching == Len(search_existing_content(st.store, gap.skill_name, difficulty,
                                                  "none"))
          in_store == \A i \in 1..Len(cands) :
                         \E j \in 1..Len(gen.st.store) : gen.st.store[j].id = cands[i].id
      IN IF cands # <<>> /\ ScoreRaises(gap)
         THEN [recs |-> <<>>, fail |-> "scoring", generated |-> existing = <<>>,
               st |-> gen.st,
               ai_called |-> existing = <<>>, matching |-> matching, in_store |-> in_store]
         ELSE [recs |-> SortByScoreDesc(<<>>,
                          [i \in 1..Len(cands) |-> Recommendation(cands[i], gap)]),
               fail |-> gen.fail, generated |-> (existing = <<>> /\ cands # <<>>),
               st |-> gen.st,
               ai_called |-> existing = <<>>, matching |-> matching, in_store |-> in_store]

\* max_duration_minutes = (max_duration_hours * 60) if max_duration_hours else 480
DefaultBudgetMinutes == 480

max_duration_minutes(max_duration_hours) ==
    IF max_duration_hours.has /\ max_duration_hours.v # 0
    THEN max_duration_hours.v * 60
    ELSE DefaultBudgetMinutes

\* The inner loop without its budget test: every recommendation is taken.
TakeWithoutBudget(recs, total, budget) == recs

\* The inner loop going on after a recommendation that does not fit: every
\* recommendation that fits at its turn is taken.
RECURSIVE TakeEveryFitting(_, _, _)
TakeEveryFitting(recs, total, budget) ==
    IF recs = <<>> THEN <<>>
    ELSE IF total + Head(recs).estimated_duration <= budget
         THEN <<Head(recs)>> \o
              TakeEveryFitting(Tail(recs), total + Head(recs).estimated_duration, budget)
         ELSE TakeEveryFitting(Tail(recs), total, budget)

\* The inner loop: recommendations are taken while they fit; the first one
\* that does not fit ends the loop for this gap.
RECURSIVE TakeWhileFits(_, _, _)
TakeWhileFits(recs, total, budget) ==
    IF recs = <<>> THEN <<>>
    ELSE IF total + Head(recs).estimated_duration <= budget
         THEN <<Head(recs)>> \o
              TakeWhileFits(Tail(recs), total + Head(recs).estimated_duration, budget)
         ELSE <<>>

\* Shortest estimated_duration among recs (0 when there is none).
MinDuration(recs) ==
    IF recs = <<>> THEN 0
    ELSE CHOOSE d \in {recs[i].estimated_duration : i \in 1..Len(recs)} :
            \A i \in 1..Len(recs) : d <= recs[i].estimated_duration

\* The outer loop with a gap's failure ending it: the gaps after a failed gap
\* are not processed.
RECURSIVE GapLoopStoppingAtFailure(_, _, _, _, _, _)
GapLoopStoppingAtFailure(gaps, acc, budget, pref, ai, now) ==
    IF gaps = <<>> \/ acc.total >= budget THEN acc
    ELSE
      LET gap == Head(gaps)
          gc == get_content_for_skill_gap(gap, pref, acc.st, ai, now)
          taken == TakeWhileFits(gc.recs, acc.total, budget)
          next == [st |-> gc.st,
                   total |-> acc.total + SumDur(taken),
                   recs |-> acc.recs \o taken,
                   log |-> Append(acc.log,
                             [gap |-> gap.id, fail |-> gc.fail, generated |-> gc.generated,
                              candidates |-> Len(gc.recs), selected |-> Len(taken),
                              shortest |-> MinDuration(gc.recs),
                              cands |-> gc.recs, ai_called |-> gc.ai_called,
                              matching |-> gc.matching, in_store |-> gc.in_store,
                              taken |-> taken])]
      IN IF gc.fail # "none" THEN next
         ELSE GapLoopStoppingAtFailure(Tail(gaps), next, budget, pref, ai, now)

\* The outer loop ending at the first gap whose highest-scored candidate does
\* not fit the remaining budget.
RECURSIVE GapLoopStoppingAtMisfit(_, _, _, _, _, _)
GapLoopStoppingAtMisfit(gaps, acc, budget, pref, ai, now) ==
    IF gaps = <<>> \/ acc.total >= budget THEN acc
    ELSE
      LET gap == Head(gaps)
          gc == get_content_for_skill_gap(gap, pref, acc.st, ai, now)
          taken == TakeWhileFits(gc.recs, acc.total, budget)
          next == [st |-> gc.st,
                   total |-> acc.total + SumDur(taken),
                   recs |-> acc.recs \o taken,
                   log |-> Append(acc.log,
                             [gap |-> gap.id, fail |-> gc.fail, generated |-> gc.generated,
                              candidates |-> Len(gc.recs), selected |-> Len(taken),
                              shortest |-> MinDuration(gc.recs),
                              cands |-> gc.recs, ai_called |-> gc.ai_called,
                              matching |-> gc.matching, in_store |-> gc.in_store,
                              taken |-> taken])]
      IN IF gc.recs # <<>> /\ taken = <<>> THEN next
         ELSE GapLoopStoppingAtMisfit(Tail(gaps), next, budget, pref, ai, now)

\* The outer loop over the prioritized gaps.
RECURSIVE GapLoop(_, _, _, _, _, _)
GapLoop(gaps, acc, budget, pref, ai, now) ==
    IF gaps = <<>> \/ acc.total >= budget THEN acc
    ELSE
      LET gap == Head(gaps)
          gc == get_content_for_skill_gap(gap, pref, acc.st, ai, now)
          taken == TakeWhileFits(gc.recs, acc.total, budget)
      IN GapLoop(Tail(gaps),
                 [st |-> gc.st,
                  total |-> acc.total + SumDur(taken),
                  recs |-> acc.recs \o taken,
                  log |-> Append(acc.log,
                            [gap |-> gap.id, fail |-> gc.fail, generated |-> gc.generated,
                             candidates |-> Len(gc.recs), selected |-> Len(taken),
                             shortest |-> MinDuration(gc.recs),
                             cands |-> gc.recs, ai_called |-> gc.ai_called,
                              matching |-> gc.matching, in_store |-> gc.in_store,
                             taken |-> taken])],
                 budget, pref, ai, now)

\* _generate_learning_recommendations without its final sort: the
\* recommendations stay in the order in which the gaps were processed.
RecommendationsInGapOrder(skill_gaps, max_duration_hours, pref, st, rank, ai, now) ==
    LET pr == prioritize_skill_gaps(skill_gaps, rank)
        budget == max_duration_minutes(max_duration_hours)
        acc == GapLoop(pr.gaps, [st |-> st, total |-> 0, recs |-> <<>>, log |-> <<>>],
                       budget, pref, ai, now)
    IN IF pr.status = "raised"
       THEN [status |-> "raised", recs |-> <<>>, prioritized |-> <<>>, log |-> <<>>,
             budget |-> budget, st |-> st]
       ELSE [status |-> "returned", recs |-> acc.recs,
             prioritized |-> pr.gaps, log |-> acc.log, budget |-> budget, st |-> acc.st]

\* _generate_learning_recommendations
generate_learning_recommendations(skill_gaps, max_duration_hours, pref, st, rank, ai, now) ==
    LET pr == prioritize_skill_gaps(skill_gaps, rank)
        budget == max_duration_minutes(max_duration_hours)
        acc == GapLoop(pr.gaps, [st |-> st, total |-> 0, recs |-> <<>>, log |-> <<>>],
                       budget, pref, ai, now)
    IN IF pr.status = "raised"
       THEN [status |-> "raised", recs |-> <<>>, prioritized |-> <<>>, log |-> <<>>,
             budget |-> budget, st |-> st]
       ELSE [status |-> "returned", recs |-> SortByScoreDesc(<<>>, acc.recs),
             prioritized |-> pr.gaps, log |-> acc.log, budget |-> budget, st |-> acc.st]

RECURSIVE SumDifficulty(_)
SumDifficulty(recs) ==
    IF recs = <<>> THEN 0
    ELSE LevelNumber(Head(recs).difficulty, 1) + SumDifficulty(Tail(recs))

\* The overall difficulty taken as that of the hardest recommendation.
OverallDifficultyOfHardest(recs) ==
    IF \E i \in 1..Len(recs) : LevelNumber(recs[i].difficulty, 1) >= 3 THEN "advanced"
    ELSE IF \E i \in 1..Len(recs) : LevelNumber(recs[i].difficulty, 1) = 2
         THEN "intermediate"
    ELSE "beginner"

\* _determine_overall_difficulty: avg_score >= 3, >= 2 on sum / len
determine_overall_difficulty(recs) ==
    IF recs = <<>> THEN "beginner"
    ELSE IF SumDifficulty(recs) >= 3 * Len(recs) THEN "advanced"
    ELSE IF SumDifficulty(recs) >= 2 * Len(recs) THEN "intermediate"
    ELSE "beginner"

\* for gap in skill_gaps[:5]
ObjectivesLimit == 5

\* _create_personalized_path with the duration taken as one micro-learning
\* slot per recommendation instead of the sum of the recommendations' own.
PathWithSlotDuration(path_id, skill_gaps, recs) ==
    [path_id |-> path_id,
     target_skills |-> [i \in 1..Len(skill_gaps) |-> skill_gaps[i].skill_name],
     difficulty |-> determine_overall_difficulty(recs),
     estimated_duration |-> Len(recs) * micro_learning_duration("concept_explanation"),
     content_sequence |-> recs,
     learning_objectives |->
        [i \in 1..Len(FirstN(skill_gaps, ObjectivesLimit)) |->
            <<skill_gaps[i].skill_name, skill_gaps[i].current_level,
              skill_gaps[i].target_level>>],
     priority_order |-> [i \in 1..Len(skill_gaps) |-> skill_gaps[i].skill_name]]

\* _create_personalized_path
create_personalized_path(path_id, skill_gaps, recs) ==
    [path_id |-> path_id,
     target_skills |-> [i \in 1..Len(skill_gaps) |-> skill_gaps[i].skill_name],
     difficulty |-> determine_overall_difficulty(recs),
     estimated_duration |-> SumDur(recs),
     content_sequence |-> recs,
     learning_objectives |->
        [i \in 1..Len(FirstN(skill_gaps, ObjectivesLimit)) |->
            <<skill_gaps[i].skill_name, skill_gaps[i].current_level,
              skill_gaps[i].target_level>>],
     priority_order |-> [i \in 1..Len(skill_gaps) |-> skill_gaps[i].skill_name]]

\* estimated_duration of the default recommendation and of the default path
DefaultDuration == 15
DefaultScore == 8

\* The default path with the duration of a generated concept_explanation
\* instead of the fixed duration.
DefaultPathWithMicroDuration(content_id, path_id) ==
    [path_id |-> path_id,
     target_skills |-> <<"product_management", "strategy", "user_research">>,
     difficulty |-> "beginner",
     estimated_duration |-> micro_learning_duration("concept_explanation"),
     content_sequence |->
        <<[content_id |-> content_id, content_type |-> "concept_explanation",
           difficulty |-> "beginner",
           estimated_duration |-> micro_learning_duration("concept_explanation"),
           skills_covered |-> {"product_management", "strategy"},
           priority_score |-> DefaultScore, reasoning |-> "essential", for_gap |-> 0]>>,
     learning_objectives |-> <<<<"foundational", NULL, NULL>>>>,
     priority_order |-> <<"product_management">>]

\* _create_default_learning_path
create_default_learning_path(content_id, path_id) ==
    [path_id |-> path_id,
     target_skills |-> <<"product_management", "strategy", "user_research">>,
     difficulty |-> "beginner",
     estimated_duration |-> DefaultDuration,
     content_sequence |->
        <<[content_id |-> content_id, content_type |-> "concept_explanation",
           difficulty |-> "beginner", estimated_duration |-> DefaultDuration,
           skills_covered |-> {"product_management", "strategy"},
           priority_score |-> DefaultScore, reasoning |-> "essential", for_gap |-> 0]>>,
     learning_objectives |-> <<<<"foundational", NULL, NULL>>>>,
     priority_order |-> <<"product_management">>]

\* _store_learning_path: the rows written for the recommendations of the path
RECURSIVE StoreRecommendations(_, _, _, _)
StoreRecommendations(store, recs, now, fault) ==
    IF recs = <<>> THEN store
    ELSE StoreRecommendations(store_content_recommendation(store, Head(recs), now, fault),
                              Tail(recs), now, fault)

PathRow(path) ==
    [id |-> path.path_id,
     content_sequence |-> [i \in 1..Len(path.content_sequence) |->
                              path.content_sequence[i].content_id],
     estimated_duration |-> path.estimated_duration]

NoPath ==
    [path_id |-> 0, target_skills |-> <<>>, difficulty |-> NULL, estimated_duration |-> 0,
     content_sequence |-> <<>>, learning_objectives |-> <<>>, priority_order |-> <<>>]

NoResult ==
    [status |-> "none", kind |-> "none", path |-> NoPath, prioritized |-> <<>>,
     log |-> <<>>, budget |-> 0, aiCalls |-> 0, searches |-> 0, used_gaps |-> <<>>,
     store_errors |-> 0]

\* The tail of generate_personalized_learning_path: the path assembled from
\* the recommendations gr is stored and returned.
StoreAndReturn(skill_gaps, gr, path, stored_paths, now) ==
    IF gr.st.fault = "store_path"
    THEN \* _store_learning_path: the INSERT raises, "except Exception: raise"
         [res |-> [NoResult EXCEPT !.status = "raised", !.kind = "store",
                      !.prioritized = gr.prioritized, !.log = gr.log,
                      !.budget = gr.budget, !.aiCalls = 1 + gr.st.aiCalls,
                      !.searches = gr.st.searches, !.used_gaps = skill_gaps,
                      !.store_errors = gr.st.storeErrors + 1],
          store |-> gr.st.store, paths |-> stored_paths, nextId |-> gr.st.nextId]
    ELSE
    [res |-> [status |-> "returned", kind |-> "synthesized", path |-> path,
              prioritized |-> gr.prioritized, log |-> gr.log,
              budget |-> gr.budget, aiCalls |-> 1 + gr.st.aiCalls,
              searches |-> gr.st.searches, used_gaps |-> skill_gaps,
              store_errors |-> gr.st.storeErrors
                  + (IF gr.st.fault = "store_recommendation"
                     THEN Len(path.content_sequence) ELSE 0)],
     store |-> StoreRecommendations(gr.st.store, path.content_sequence, now, gr.st.fault),
     paths |-> Append(stored_paths, PathRow(path)),
     nextId |-> gr.st.nextId]

\* generate_personalized_learning_path once the recommendations gr are there
\* (or _generate_learning_recommendations has raised).
AssemblePath(skill_gaps, gr, store, stored_paths, id0, now) ==
    IF gr.status = "raised"
    THEN [res |-> [NoResult EXCEPT !.status = "raised", !.kind = "prioritize",
                      !.aiCalls = 1, !.used_gaps = skill_gaps, !.budget = gr.budget],
          store |-> store, paths |-> stored_paths, nextId |-> id0]
    ELSE StoreAndReturn(skill_gaps, gr, create_personalized_path(id0, skill_gaps, gr.recs),
                        stored_paths, now)

\* generate_personalized_learning_path for an existing user, with skill_gaps
\* as given or as read from the skills engine.
PathForGaps(skill_gaps, req, store, stored_paths, id0, rank, ai, now, fault) ==
    IF skill_gaps = <<>>
    THEN [res |-> [NoResult EXCEPT !.status = "returned", !.kind = "default",
                      !.path = create_default_learning_path(id0, id0 + 1)],
          store |-> store, paths |-> stored_paths, nextId |-> id0 + 2]
    ELSE AssemblePath(skill_gaps,
                      generate_learning_recommendations(skill_gaps, req.max_duration_hours,
                          req.preferred_difficulty,
                          [store |-> store, nextId |-> id0 + 1, aiCalls |-> 0,
                           searches |-> 0, fault |-> fault, storeErrors |-> 0],
                          rank, ai, now),
                      store, stored_paths, id0, now)

\* generate_personalized_learning_path: the outcome and the stores after it.
generate_personalized_learning_path(req, store, stored_paths, id0, stored_gaps, rank, ai, now, fault) ==
    IF ~req.user_exists
    THEN [res |-> [NoResult EXCEPT !.status = "raised", !.kind = "no_user"],
          store |-> store, paths |-> stored_paths, nextId |-> id0]
    ELSE PathForGaps(IF req.skill_gaps = <<>> THEN stored_gaps ELSE req.skill_gaps,
                     req, store, stored_paths, id0, rank, ai, now, fault)

(***************************************************************************)
(* SkillsEngine: assessments, AI analysis, skill gaps                      *)
(***************************************************************************)
AllWorkers == {"w1", "w2"}
AssessmentIds == {"a1", "a0"}
Statuses == {"pending", "in_progress", "completed", "failed"}
MISSING == "MISSING"

NoRow ==
    [exists |-> FALSE, user_id |-> NULL, status |-> NULL, overall_score |-> None,
     confidence_level |-> None, assessment_data |-> NULL, skills_evaluated |-> <<>>]

\* The row create_skills_assessment inserts.
PendingRow(user) ==
    [exists |-> TRUE, user_id |-> user, status |-> "pending", overall_score |-> None,
     confidence_level |-> None, assessment_data |-> NULL, skills_evaluated |-> <<>>]

\* SkillsAssessment(**row): overall_score within 0..100, confidence_level
\* within 0..1 (kept in tenths here), else pydantic raises on reading the row.
Readable(row) ==
    /\ row.overall_score.has => (row.overall_score.v >= 0 /\ row.overall_score.v <= 100)
    /\ row.confidence_level.has
          => (row.confidence_level.v >= 0 /\ row.confidence_level.v <= 10)

\* Entries of the AI's skill_gaps list; MISSING marks an absent key.
GapEntry(name, size, priority, impact, actions) ==
    [skill_name |-> name, gap_size |-> size, priority |-> priority,
     business_impact |-> impact, recommended_actions |-> actions]

GapEntries ==
    {GapEntry("programming", "medium", "high", "impact", <<"course">>),
     GapEntry("user_research", MISSING, MISSING, MISSING, MISSING),
     GapEntry(MISSING, "large", "low", "impact", <<>>),
     GapEntry("data_analysis", "small", "urgent", MISSING, <<>>)}

DemonstratedEntries == {"product_strategy", MISSING}

OverallValues ==
    {[score |-> Some(75), confidence |-> Some(8)],
     [score |-> Some(150), confidence |-> Some(8)],
     [score |-> None, confidence |-> None]}

Analysis(shape, demonstrated, gaps, score, confidence) ==
    [shape |-> shape, skills_demonstrated |-> demonstrated, skill_gaps |-> gaps,
     overall_score |-> score, confidence_level |-> confidence]

\* What generate_text returns: the client raises, the response has error set,
\* the content is not JSON, is JSON but no object, or is a JSON object.
NoAnalysis == Analysis("none", <<>>, <<>>, None, None)

FailingOutcomes ==
    {[kind |-> k, analysis |-> NoAnalysis] : k \in {"raise", "error", "nonjson"}}
    \cup {[kind |-> "json", analysis |-> Analysis("nonobject", <<>>, <<>>, None, None)]}

ObjectOutcome(d, g, o) ==
    [kind |-> "json", analysis |-> Analysis("object", d, g, o.score, o.confidence)]

\* _create_fallback_analysis: overall_score 50, confidence_level 0.3
FallbackScore == 50
FallbackConfidenceTenths == 3

create_fallback_analysis ==
    Analysis("object", <<>>, <<>>, Some(FallbackScore), Some(FallbackConfidenceTenths))

\* _perform_ai_skills_analysis without the test of response.error: the empty
\* content of an error response fails to parse and gives the fallback.
PerformAnalysisIgnoringError(outcome) ==
    IF outcome.kind = "raise"
    THEN [raised |-> TRUE, analysis |-> outcome.analysis]
    ELSE IF outcome.kind \in {"error", "nonjson"}
    THEN [raised |-> FALSE, analysis |-> create_fallback_analysis]
    ELSE [raised |-> FALSE, analysis |-> outcome.analysis]

\* _perform_ai_skills_analysis: raised, or the analysis_result it returns.
perform_ai_skills_analysis(outcome) ==
    IF outcome.kind \in {"raise", "error"}
    THEN [raised |-> TRUE, analysis |-> outcome.analysis]
    ELSE IF outcome.kind = "nonjson"
    THEN [raised |-> FALSE, analysis |-> create_fallback_analysis]
    ELSE [raised |-> FALSE, analysis |-> outcome.analysis]

\* update_assessment_status: UPDATE ... SET status = ? WHERE id = ?
update_assessment_status(table, id, status) ==
    IF table[id].exists THEN [table EXCEPT ![id].status = status] ELSE table

\* The part of _update_assessment_with_analysis before the UPDATE raises when
\* analysis_result has no .get or a skills_demonstrated entry has no skill_name.
UpdateRaises(analysis) ==
    \/ analysis.shape # "object"
    \/ \E i \in 1..Len(analysis.skills_demonstrated) :
          analysis.skills_demonstrated[i] = MISSING

\* The UPDATE of _update_assessment_with_analysis.
update_assessment_with_analysis(table, id, analysis) ==
    IF table[id].exists
    THEN [table EXCEPT ![id].status = "completed",
                       ![id].skills_evaluated = analysis.skills_demonstrated,
                       ![id].overall_score = analysis.overall_score,
                       ![id].confidence_level = analysis.confidence_level,
                       ![id].assessment_data = "analysis"]
    ELSE table

Default(value, default) == IF value = MISSING THEN default ELSE value

ValidPriorities == {"low", "medium", "high", "critical"}

\* create_skill_gap: the inserted row.
SkillGapRow(id, user, entry, assessment_id) ==
    [id |-> id, user_id |-> user, skill_name |-> entry.skill_name,
     gap_size |-> Default(entry.gap_size, "medium"),
     priority |-> Default(entry.priority, "medium"),
     urgency |-> "medium",
     business_impact |-> Default(entry.business_impact, NULL),
     recommended_actions |-> Default(entry.recommended_actions, <<>>),
     evidence_sources |-> <<assessment_id>>]

\* The loop of _create_skill_gaps_from_analysis.  An entry without skill_name
\* raises before anything is inserted; an entry whose priority SkillGap rejects
\* raises when create_skill_gap reads the inserted row back.  Either exception
\* ends the loop and is swallowed.
RECURSIVE CreateGapsLoop(_, _, _, _)
CreateGapsLoop(rows, entries, user, assessment_id) ==
    IF entries = <<>> THEN rows
    ELSE IF Head(entries).skill_name = MISSING THEN rows
    ELSE LET inserted == Append(rows, SkillGapRow(Len(rows) + 1, user, Head(entries),
                                                  assessment_id))
         IN IF inserted[Len(inserted)].priority \notin ValidPriorities
            THEN inserted
            ELSE CreateGapsLoop(inserted, Tail(entries), user, assessment_id)

\* _create_skill_gaps_from_analysis
create_skill_gaps_from_analysis(rows, table, id, analysis) ==
    IF ~table[id].exists \/ ~Readable(table[id]) THEN rows
    ELSE CreateGapsLoop(rows, analysis.skill_gaps, table[id].user_id, id)

IdleCall == [aid |-> NULL, analysis |-> NoAnalysis,
             gaps_before |-> 0]

NoOperation == [op |-> "none", worker |-> NULL, aid |-> NULL, outcome |-> "none",
                gaps_before |-> 0, overlapped |-> FALSE]

SkillsIdle ==
    /\ assessments = [a \in AssessmentIds |-> NoRow]
    /\ gapRows = <<>>
    /\ aiAnalysis = [kind |-> "raise", analysis |-> NoAnalysis]
    /\ pc = [w \in AllWorkers |-> "idle"]
    /\ wk = [w \in AllWorkers |-> IdleCall]
    /\ skLast = NoOperation
    /\ skCalls = 0
    /\ skUpdates = 0

(***************************************************************************)
(* Spec: generate_personalized_learning_path against the stores.  The      *)
(* initial state draws the stores, the AI Text Service's behaviour and the *)
(* request; the call is then made up to MaxCalls times.                    *)
(***************************************************************************)
Catalog ==
    <<Row(1, {"programming"}, "intermediate", 45, "course"),
      Row(2, {"user_research"}, "intermediate", 20, "article"),
      Row(3, {"programming", "mobile_development"}, "intermediate", 10, "tutorial"),
      Row(4, {"programming"}, "intermediate", 55, "tutorial")>>

InitialStores ==
    {<<>>, <<Catalog[1], Catalog[2]>>, <<Catalog[3]>>,
     <<Catalog[1], Catalog[2], Catalog[3]>>, <<Catalog[1], Catalog[3], Catalog[4]>>}

LearnGap(id, name, size, current, target) ==
    [id |-> id, skill_name |-> name, gap_size |-> size,
     current_level |-> current, target_level |-> target]

GapPool ==
    {LearnGap(1, "programming", StrSize("large"), "beginner", "intermediate"),
     LearnGap(2, "user_research", StrSize("small"), "beginner", "intermediate"),
     LearnGap(3, "programming", NumSize(3), "beginner", "intermediate"),
     LearnGap(4, "user_research", NumSize(1), "beginner", "intermediate"),
     LearnGap(5, "user_research", NumSize(3), NULL, NULL),
     LearnGap(6, "programming", NoneSize, "beginner", "advanced")}

InjectiveSeqs(S, n) ==
    {s \in SeqsUpTo(S, n) : \A i, j \in 1..Len(s) : i # j => s[i] # s[j]}

GapLists == InjectiveSeqs(GapPool, MaxGaps)

\* What get_user_skill_gaps returns; it is read only for a request without gaps.
StoredGapLists ==
    {<<>>,
     <<LearnGap(4, "user_research", NumSize(1), "beginner", "intermediate"),
       LearnGap(3, "programming", NumSize(3), "beginner", "intermediate")>>,
     <<LearnGap(3, "programming", NumSize(3), "beginner", "intermediate"),
       LearnGap(4, "user_research", NumSize(1), "beginner", "intermediate"),
       LearnGap(5, "user_research", NumSize(3), NULL, NULL)>>}

HoursValues == {None, Some(0), Some(1)}
PreferredDifficulties == {NULL, "intermediate"}

NoUserRequest ==
    [user_exists |-> FALSE, skill_gaps |-> <<>>, max_duration_hours |-> None,
     preferred_difficulty |-> NULL]

\* The requests that carry the gap list g.
RequestsWith(g) ==
    {[user_exists |-> TRUE, skill_gaps |-> g, max_duration_hours |-> h,
      preferred_difficulty |-> d] : h \in HoursValues, d \in PreferredDifficulties}
    \cup (IF g = <<>> THEN {NoUserRequest} ELSE {})

LearnRankings ==
    {[kind |-> "raise", names |-> <<>>],
     [kind |-> "ranking", names |-> <<"user_research">>]}

AllSkills == SkillNames \cup {"research", "mobile_development"}

ContentBehaviours ==
    {[s \in AllSkills |-> "ok"],
     [s \in AllSkills |-> IF s = "programming" THEN "raise" ELSE "ok"],
     [s \in AllSkills |-> IF s = "user_research" THEN "malformed" ELSE "ok"],
     [s \in AllSkills |-> "raise"]}

\* The learning engine's variables in a specification that does not run it.
LearnIdle ==
    /\ content = <<>>
    /\ paths = <<>>
    /\ userGaps = <<>>
    /\ aiRank = [kind |-> "raise", names |-> <<>>]
    /\ aiContent = [s \in AllSkills |-> "ok"]
    /\ request = NoUserRequest
    /\ nextId = Len(Catalog) + 1
    /\ calls = 0
    /\ storeFault = "none"
    /\ result = NoResult

\* The difficulty computations' variables in a specification that does not
\* run them.
NoFnCall == [kind |-> "none", current_level |-> NULL, target_level |-> NULL,
             preferred_difficulty |-> NULL, difficulties |-> <<>>]

NoFnOut == [done |-> FALSE, raised |-> FALSE, difficulty |-> NULL]

FnIdle ==
    /\ fnIn = NoFnCall
    /\ fnOut = NoFnOut

PrioIdle ==
    /\ prIn = <<>>
    /\ prAi = [kind |-> "raise", names |-> <<>>]
    /\ prOut = [status |-> "none", gaps |-> <<>>, aiCalls |-> 0, path |-> "none"]
    /\ prDone = FALSE

Init ==
    /\ content \in InitialStores
    /\ paths = <<>>
    /\ \E g \in GapLists :
          /\ request \in RequestsWith(g)
          /\ userGaps \in (IF g = <<>> THEN StoredGapLists ELSE {<<>>})
    /\ aiRank \in LearnRankings
    /\ aiContent \in ContentBehaviours
    /\ nextId = Len(Catalog) + 1
    /\ calls = 0
    /\ storeFault \in StoreFaults
    /\ result = NoResult
    /\ PrioIdle
    /\ SkillsIdle
    /\ FnIdle

GeneratePath ==
    /\ calls < MaxCalls
    /\ \E out \in {generate_personalized_learning_path(request, content, paths, nextId,
                        userGaps, aiRank, aiContent, calls + 1, storeFault)} :
          /\ result' = out.res
          /\ content' = out.store
          /\ paths' = out.paths
          /\ nextId' = out.nextId
    /\ calls' = calls + 1
    /\ UNCHANGED <<userGaps, aiRank, aiContent, request, storeFault>>
    /\ UNCHANGED prioVars
    /\ UNCHANGED skillsVars
    /\ UNCHANGED fnVars

Next == GeneratePath

Spec == Init /\ [][Next]_vars

(***************************************************************************)
(* SpecPrio: inputs drawn in the initial state, the prioritizer applied.   *)
(***************************************************************************)
\* The gap list with skill names n and gap sizes z; ids are the positions.
PrioGapList(k, n, z) == [i \in 1..k |-> Gap(i, n[i], z[i])]

NoOutcome == [status |-> "none", gaps |-> <<>>, aiCalls |-> 0, path |-> "none"]

InitPrio ==
    /\ \E k \in 0..MaxPrioGaps :
          \E n \in [1..k -> SkillNames], z \in [1..k -> GapSizes] :
             prIn = PrioGapList(k, n, z)
    /\ prAi \in RankingOutcomes
    /\ prOut = NoOutcome
    /\ prDone = FALSE
    /\ LearnIdle
    /\ SkillsIdle
    /\ FnIdle

PrioritizeCall ==
    /\ ~prDone
    /\ prOut' = prioritize_skill_gaps(prIn, prAi)
    /\ prDone' = TRUE
    /\ UNCHANGED <<prIn, prAi>>
    /\ UNCHANGED learnVars
    /\ UNCHANGED skillsVars
    /\ UNCHANGED fnVars

NextPrio == PrioritizeCall

SpecPrio == InitPrio /\ [][NextPrio]_vars

(***************************************************************************)
(* The difficulty of a gap's content and of a path, each computed once     *)
(***************************************************************************)
MaxRecs == 3

Levels == {"beginner", "intermediate", "advanced", "expert"}

\* The recommendations _determine_overall_difficulty reads, by difficulty.
RecsOf(difficulties) ==
    [i \in 1..Len(difficulties) |-> [difficulty |-> difficulties[i]]]

InitDifficulty ==
    /\ \/ \E c, t, p \in Levels \cup {NULL} :
             fnIn = [NoFnCall EXCEPT !.kind = "content", !.current_level = c,
                                     !.target_level = t, !.preferred_difficulty = p]
       \/ \E d \in SeqsUpTo(Levels, MaxRecs) :
             fnIn = [NoFnCall EXCEPT !.kind = "overall", !.difficulties = d]
    /\ fnOut = NoFnOut
    /\ LearnIdle
    /\ PrioIdle
    /\ SkillsIdle

\* The first statement of _get_content_for_skill_gap.
ContentDifficulty ==
    /\ fnIn.kind = "content"
    /\ ~fnOut.done
    /\ \E r \in {content_difficulty(fnIn.current_level, fnIn.target_level,
                                     fnIn.preferred_difficulty)} :
          fnOut' = [done |-> TRUE, raised |-> r.raised, difficulty |-> r.difficulty]
    /\ UNCHANGED fnIn
    /\ UNCHANGED <<prioVars, learnVars, skillsVars>>

\* _determine_overall_difficulty(recommendations)
OverallDifficulty ==
    /\ fnIn.kind = "overall"
    /\ ~fnOut.done
    /\ fnOut' = [done |-> TRUE, raised |-> FALSE,
                 difficulty |-> determine_overall_difficulty(RecsOf(fnIn.difficulties))]
    /\ UNCHANGED fnIn
    /\ UNCHANGED <<prioVars, learnVars, skillsVars>>

NextDifficulty == ContentDifficulty \/ OverallDifficulty

SpecDifficulty == InitDifficulty /\ [][NextDifficulty]_vars

(***************************************************************************)
(* SkillsEngine.analyze_work_artifacts, one step per store or AI access    *)
(***************************************************************************)
\* analyze_work_artifacts issuing the AI call without first writing
\* in_progress.
BeginAnalysisWithoutStatus(w, aid) ==
    /\ pc[w] = "idle"
    /\ skCalls < MaxAnalyses
    /\ wk' = [wk EXCEPT ![w] = [aid |-> aid, analysis |-> IdleCall.analysis,
                                gaps_before |-> Len(gapRows)]]
    /\ pc' = [pc EXCEPT ![w] = "ai_call"]
    /\ skCalls' = skCalls + 1
    /\ UNCHANGED <<assessments, gapRows, aiAnalysis, skLast, skUpdates>>
    /\ UNCHANGED <<prioVars, learnVars, fnVars>>

\* Another analyze_work_artifacts call is under way while w's call is.
OtherCallRunning(w) == \E v \in AllWorkers \ {w} : pc[v] # "idle"

\* The except branch re-raising without writing failed.
FailAnalysisWithoutStatus(w) ==
    /\ pc[w] = "failing"
    /\ pc' = [pc EXCEPT ![w] = "idle"]
    /\ skLast' = [op |-> "analyze", worker |-> w, aid |-> wk[w].aid,
                  outcome |-> "raised", gaps_before |-> wk[w].gaps_before,
                  overlapped |-> skLast.overlapped \/ OtherCallRunning(w)]
    /\ wk' = [wk EXCEPT ![w] = IdleCall]
    /\ UNCHANGED <<assessments, gapRows, aiAnalysis, skCalls, skUpdates>>
    /\ UNCHANGED <<prioVars, learnVars, fnVars>>

\* analyze_work_artifacts, first statement: the status becomes in_progress.
BeginAnalysis(w, aid) ==
    /\ pc[w] = "idle"
    /\ skCalls < MaxAnalyses
    /\ assessments' = update_assessment_status(assessments, aid, "in_progress")
    /\ wk' = [wk EXCEPT ![w] = [aid |-> aid, analysis |-> IdleCall.analysis,
                                gaps_before |-> Len(gapRows)]]
    /\ pc' = [pc EXCEPT ![w] = "ai_call"]
    /\ skCalls' = skCalls + 1
    /\ UNCHANGED <<gapRows, aiAnalysis, skLast, skUpdates>>
    /\ UNCHANGED <<prioVars, learnVars, fnVars>>

\* _perform_ai_skills_analysis returns or raises.
AICallWith(w, outcome) ==
    /\ pc[w] = "ai_call"
    /\ LET r == perform_ai_skills_analysis(outcome)
       IN /\ wk' = [wk EXCEPT ![w].analysis = r.analysis]
          /\ pc' = [pc EXCEPT ![w] = IF r.raised THEN "failing" ELSE "update"]
    /\ UNCHANGED <<assessments, gapRows, aiAnalysis, skLast, skCalls, skUpdates>>
    /\ UNCHANGED <<prioVars, learnVars, fnVars>>

AICall(w) == AICallWith(w, aiAnalysis)

\* _update_assessment_with_analysis up to its UPDATE.
UpdateWithAnalysis(w) ==
    /\ pc[w] = "update"
    /\ IF UpdateRaises(wk[w].analysis)
       THEN /\ pc' = [pc EXCEPT ![w] = "failing"]
            /\ UNCHANGED assessments
       ELSE /\ pc' = [pc EXCEPT ![w] = "gaps"]
            /\ assessments' =
                  update_assessment_with_analysis(assessments, wk[w].aid, wk[w].analysis)
    /\ UNCHANGED <<gapRows, aiAnalysis, wk, skLast, skCalls, skUpdates>>
    /\ UNCHANGED <<prioVars, learnVars, fnVars>>

\* _create_skill_gaps_from_analysis
CreateSkillGaps(w) ==
    /\ pc[w] = "gaps"
    /\ gapRows' = create_skill_gaps_from_analysis(gapRows, assessments, wk[w].aid,
                                                  wk[w].analysis)
    /\ pc' = [pc EXCEPT ![w] = "reread"]
    /\ UNCHANGED <<assessments, aiAnalysis, wk, skLast, skCalls, skUpdates>>
    /\ UNCHANGED <<prioVars, learnVars, fnVars>>

\* return self.get_skills_assessment(assessment_id): the row is read back and
\* returned (None when there is no row); a row SkillsAssessment rejects raises.
ReturnAssessment(w) ==
    /\ pc[w] = "reread"
    /\ LET row == assessments[wk[w].aid]
       IN IF row.exists /\ ~Readable(row)
          THEN /\ pc' = [pc EXCEPT ![w] = "failing"]
               /\ UNCHANGED <<wk, skLast>>
          ELSE /\ pc' = [pc EXCEPT ![w] = "idle"]
               /\ skLast' = [op |-> "analyze", worker |-> w, aid |-> wk[w].aid,
                             outcome |-> IF row.exists THEN "returned" ELSE "returned_none",
                             gaps_before |-> wk[w].gaps_before,
                             overlapped |-> skLast.overlapped \/ OtherCallRunning(w)]
               /\ wk' = [wk EXCEPT ![w] = IdleCall]
    /\ UNCHANGED <<assessments, gapRows, aiAnalysis, skCalls, skUpdates>>
    /\ UNCHANGED <<prioVars, learnVars, fnVars>>

\* except Exception: the status becomes failed and the exception is re-raised.
FailAnalysis(w) ==
    /\ pc[w] = "failing"
    /\ assessments' = update_assessment_status(assessments, wk[w].aid, "failed")
    /\ pc' = [pc EXCEPT ![w] = "idle"]
    /\ skLast' = [op |-> "analyze", worker |-> w, aid |-> wk[w].aid,
                  outcome |-> "raised", gaps_before |-> wk[w].gaps_before,
                  overlapped |-> skLast.overlapped \/ OtherCallRunning(w)]
    /\ wk' = [wk EXCEPT ![w] = IdleCall]
    /\ UNCHANGED <<gapRows, aiAnalysis, skCalls, skUpdates>>
    /\ UNCHANGED <<prioVars, learnVars, fnVars>>

\* update_assessment_status called through PUT /assessments/{id}/status
UpdateStatus(aid, status) ==
    /\ skUpdates < MaxStatusUpdates
    /\ \A w \in AllWorkers : pc[w] = "idle"
    /\ assessments' = update_assessment_status(assessments, aid, status)
    /\ skLast' = [op |-> "update_status", worker |-> NULL, aid |-> aid,
                  outcome |-> IF assessments[aid].exists THEN "true" ELSE "false",
                  gaps_before |-> Len(gapRows), overlapped |-> skLast.overlapped]
    /\ skUpdates' = skUpdates + 1
    /\ UNCHANGED <<gapRows, aiAnalysis, pc, wk, skCalls>>
    /\ UNCHANGED <<prioVars, learnVars, fnVars>>

InitSkills ==
    /\ assessments = [a \in AssessmentIds |->
                         IF a = "a1" THEN PendingRow("u1") ELSE NoRow]
    /\ gapRows = <<>>
    /\ \/ aiAnalysis \in FailingOutcomes
       \/ \E d \in SeqsUpTo(DemonstratedEntries, MaxEntries),
             g \in SeqsUpTo(GapEntries, MaxEntries),
             o \in OverallValues : aiAnalysis = ObjectOutcome(d, g, o)
    /\ pc = [w \in AllWorkers |-> "idle"]
    /\ wk = [w \in AllWorkers |-> IdleCall]
    /\ skLast = NoOperation
    /\ skCalls = 0
    /\ skUpdates = 0
    /\ LearnIdle
    /\ PrioIdle
    /\ FnIdle

NextSkills ==
    \/ \E aid \in AssessmentIds : BeginAnalysis("w1", aid)
    \/ AICall("w1")
    \/ UpdateWithAnalysis("w1")
    \/ CreateSkillGaps("w1")
    \/ ReturnAssessment("w1")
    \/ FailAnalysis("w1")
    \/ \E aid \in AssessmentIds, status \in Statuses : UpdateStatus(aid, status)

SpecSkills == InitSkills /\ [][NextSkills]_vars

(***************************************************************************)
(* Two analyze_work_artifacts calls on one assessment, run as background   *)
(* tasks: their store accesses and AI calls interleave freely              *)
(***************************************************************************)
\* What the AI Text Service can do in each of the calls.
ConcurrentOutcomes ==
    FailingOutcomes
    \cup {ObjectOutcome(<<>>, g, o) : g \in SeqsUpTo(GapEntries, 1), o \in OverallValues}

InitConcurrent ==
    /\ assessments = [a \in AssessmentIds |->
                         IF a = "a1" THEN PendingRow("u1") ELSE NoRow]
    /\ gapRows = <<>>
    /\ aiAnalysis = [kind |-> "raise", analysis |-> NoAnalysis]
    /\ pc = [w \in AllWorkers |-> "idle"]
    /\ wk = [w \in AllWorkers |-> IdleCall]
    /\ skLast = NoOperation
    /\ skCalls = 0
    /\ skUpdates = 0
    /\ LearnIdle
    /\ PrioIdle
    /\ FnIdle

NextConcurrent ==
    \E w \in AllWorkers :
       \/ BeginAnalysis(w, "a1")
       \/ \E o \in ConcurrentOutcomes : AICallWith(w, o)
       \/ UpdateWithAnalysis(w)
       \/ CreateSkillGaps(w)
       \/ ReturnAssessment(w)
       \/ FailAnalysis(w)

SpecConcurrent == InitConcurrent /\ [][NextConcurrent]_vars

(***************************************************************************)
(* Properties of _prioritize_skill_gaps (SpecPrio)                         *)
(***************************************************************************)
\* Number of positions of s holding x.
Count(s, x) == Cardinality({i \in 1..Len(s) : s[i] = x})

IsPermutation(a, b) ==
    /\ Len(a) = Len(b)
    /\ \A x \in Range(a) \cup Range(b) : Count(a, x) = Count(b, x)

\* C1: for every gap list and every AI ranking outcome, _prioritize_skill_gaps
\* returns a permutation of its input (each input gap exactly once, nothing else).
C1_PrioritizeReturnsPermutation ==
    prDone => (prOut.status = "returned" /\ IsPermutation(prOut.gaps, prIn))

\* Position of the first occurrence of name in names.
FirstIndex(names, name) ==
    CHOOSE i \in 1..Len(names) :
        /\ names[i] = name
        /\ \A j \in 1..(i - 1) : names[j] # name

\* The gaps whose skill_name the ranking response does not mention, in their
\* original order.
UnnamedGaps == SelectSeq(prIn, LAMBDA g : g.skill_name \notin Range(prAi.names))

\* C21: when the AI ranking response is a list of skill names, the result holds
\* each gap at most once; it begins with gaps named in the response, ordered as
\* the response orders their names, and ends with all gaps not named, in their
\* original relative order.
C21_RankedThenRemaining ==
    (prDone /\ prAi.kind = "ranking")
    => LET out == prOut.gaps
           n == Len(out) - Len(UnnamedGaps)
       IN /\ prOut.status = "returned"
          /\ \A x \in Range(out) : Count(out, x) = 1
          /\ n >= 0
          /\ n >= 0 => /\ SubSeq(out, n + 1, Len(out)) = UnnamedGaps
                       /\ \A i \in 1..n : out[i].skill_name \in Range(prAi.names)
                       /\ \A i, j \in 1..n :
                             i < j => FirstIndex(prAi.names, out[i].skill_name)
                                        <= FirstIndex(prAi.names, out[j].skill_name)

SizeRank(z) == CASE z.str = "large" -> 3 [] z.str = "medium" -> 2 [] z.str = "small" -> 1
                 [] OTHER -> 0

\* C7: when the AI ranking call fails or is unparsable, the result lists every
\* large gap before every medium gap before every small gap, equal sizes in their
\* original relative order (gap ids are input positions), with one AI call in all.
C7_FallbackLargeFirstStable ==
    (prDone /\ prAi.kind \in {"raise", "unparsable"}
        /\ \A i \in 1..Len(prIn) : prIn[i].gap_size.kind = "str")
    => /\ prOut.status = "returned"
       /\ prOut.aiCalls = 1
       /\ IsPermutation(prOut.gaps, prIn)
       /\ \A i, j \in 1..Len(prOut.gaps) :
            i < j => \/ SizeRank(prOut.gaps[i].gap_size) > SizeRank(prOut.gaps[j].gap_size)
                     \/ /\ SizeRank(prOut.gaps[i].gap_size) = SizeRank(prOut.gaps[j].gap_size)
                        /\ prOut.gaps[i].id < prOut.gaps[j].id

(***************************************************************************)
(* Properties of generate_personalized_learning_path (Spec)                *)
(***************************************************************************)
RequestedMinutes == request.max_duration_hours.v * 60

CandidateFits ==
    \E i \in 1..Len(result.log) :
        /\ result.log[i].candidates > 0
        /\ result.log[i].shortest <= RequestedMinutes

\* C2: for a provided max_duration_hours for which at least one candidate fits,
\* the summed estimated_duration of the returned content_sequence is at most
\* max_duration_hours * 60 minutes.
C2_PathWithinRequestedBudget ==
    (result.status = "returned" /\ request.max_duration_hours.has /\ CandidateFits)
    => SumDur(result.path.content_sequence) <= RequestedMinutes

\* Witness of C2: a path was synthesized under a provided budget, and a candidate
\* of some gap was left out because it no longer fitted.
C2_Witness ==
    /\ result.status = "returned"
    /\ request.max_duration_hours.has
    /\ CandidateFits
    /\ result.path.content_sequence # <<>>
    /\ \E i \in 1..Len(result.log) : result.log[i].selected < result.log[i].candidates

ScenarioD ==
    /\ request.user_exists
    /\ request.skill_gaps =
          <<LearnGap(1, "programming", StrSize("large"), "beginner", "intermediate"),
            LearnGap(2, "user_research", StrSize("small"), "beginner", "intermediate")>>
    /\ request.max_duration_hours = Some(1)
    /\ request.preferred_difficulty = NULL
    /\ aiRank.kind = "raise"
    /\ content = <<Catalog[1], Catalog[2]>>

\* C8: Scenario D (gaps [A large, B small], one hour, a 45-minute item for A and
\* a 20-minute item for B, AI ranking unavailable): gap A is processed first and
\* the path holds exactly one recommendation, A's item, with estimated_duration 45.
C8_ScenarioD ==
    [][(ScenarioD /\ calls' = calls + 1)
        => /\ result'.status = "returned"
           /\ result'.prioritized[1].id = 1
           /\ Len(result'.path.content_sequence) = 1
           /\ result'.path.content_sequence[1].content_id = 1
           /\ result'.path.estimated_duration = 45]_vars

DefaultPathReturned ==
    /\ result.status = "returned"
    /\ Len(result.path.content_sequence) = 1
    /\ result.path.content_sequence[1].difficulty = "beginner"
    /\ result.path.content_sequence[1].estimated_duration = 15
    /\ result.path.estimated_duration = 15
    /\ result.path.difficulty = "beginner"
    /\ result.path.target_skills = <<"product_management", "strategy", "user_research">>
    /\ result.path.priority_order = <<"product_management">>
    /\ result.prioritized = <<>>
    /\ result.log = <<>>
    /\ result.aiCalls = 0
    /\ result.searches = 0
    /\ paths = <<>>
    /\ content \in InitialStores

\* C9 as stated: a call for an existing user with skill_gaps empty or None
\* returns the fixed default path and runs none of the synthesis steps.
C9_EmptyGapsGiveDefaultPath ==
    (calls > 0 /\ request.user_exists /\ request.skill_gaps = <<>>)
    => DefaultPathReturned

\* C9 amended: a call for an existing user with skill_gaps empty or None, when
\* the user has no stored skill gaps either, returns the fixed default path (one
\* beginner recommendation of 15 minutes, estimated_duration 15, the hard-coded
\* target_skills) and runs no prioritization, lookup, generation or budgeting.
C9_NoGapsAnywhereGiveDefaultPath ==
    (calls > 0 /\ request.user_exists /\ request.skill_gaps = <<>> /\ userGaps = <<>>)
    => DefaultPathReturned

\* Witness of C9: the default path was returned twice for a request without gaps.
C9_Witness ==
    /\ calls = 2
    /\ request.user_exists
    /\ request.skill_gaps = <<>>
    /\ userGaps = <<>>
    /\ result.kind = "default"

\* Minutes selected for the gaps of the first n log entries.
SelectedMinutes(n) ==
    LET sel == SelectSeq(result.path.content_sequence,
                  LAMBDA r : \E i \in 1..n : result.log[i].gap = r.for_gap)
    IN SumDur(sel)

\* C10: when content retrieval or generation fails for a gap (AI call failure,
\* malformed AI output, an exception while preparing or scoring its candidates),
\* that gap contributes no recommendation, the gaps after it are still processed
\* (as long as budget remains), and the call returns a path (the failure of the
\* gap does not make it raise; a raising INSERT of the path is another cause).
C10_GapFailureIsIsolated ==
    \A i \in 1..Len(result.log) :
        (result.log[i].fail # "none" /\ storeFault # "store_path")
        => /\ result.status = "returned"
           /\ result.log[i].selected = 0
           /\ \A k \in 1..Len(result.path.content_sequence) :
                 result.path.content_sequence[k].for_gap # result.log[i].gap
           /\ (i < Len(result.prioritized) /\ SelectedMinutes(i) < result.budget)
                 => Len(result.log) > i

\* Witness of C10: a gap failed and a later gap still contributed a recommendation.
C10_Witness ==
    \E i, j \in 1..Len(result.log) :
        /\ i < j
        /\ result.log[i].fail # "none"
        /\ result.log[j].selected > 0
        /\ result.status = "returned"

\* C11: every returned path, default or synthesized, has estimated_duration
\* equal to the sum of estimated_duration over its content_sequence.
C11_DurationIsSumOfSequence ==
    result.status = "returned"
    => result.path.estimated_duration = SumDur(result.path.content_sequence)

\* Witness of C11: a synthesized path with two recommendations of different
\* durations was returned.
C11_Witness ==
    /\ result.status = "returned"
    /\ result.kind = "synthesized"
    /\ Len(result.path.content_sequence) >= 2
    /\ result.path.content_sequence[1].estimated_duration
          # result.path.content_sequence[2].estimated_duration

\* First position of the gap with this id in the prioritized order.
GapPosition(id) ==
    CHOOSE i \in 1..Len(result.prioritized) :
        /\ result.prioritized[i].id = id
        /\ \A j \in 1..(i - 1) : result.prioritized[j].id # id

\* C12 as stated: in a synthesized path the recommendations of an earlier gap
\* of the prioritized order precede those of a later gap, and the
\* recommendations of one gap are in descending priority_score.
C12_GapOrderThenScore ==
    (result.status = "returned" /\ result.kind = "synthesized")
    => \A i, j \in 1..Len(result.path.content_sequence) :
          i < j =>
            LET a == result.path.content_sequence[i]
                b == result.path.content_sequence[j]
            IN /\ GapPosition(a.for_gap) <= GapPosition(b.for_gap)
               /\ a.for_gap = b.for_gap => a.priority_score >= b.priority_score

\* C12 amended: in a synthesized path content_sequence is in descending
\* priority_score over all gaps together, so the recommendations of one gap are
\* in descending priority_score, whichever gap the others belong to.
C12_DescendingScore ==
    (result.status = "returned" /\ result.kind = "synthesized")
    => \A i, j \in 1..Len(result.path.content_sequence) :
          i < j => result.path.content_sequence[i].priority_score
                     >= result.path.content_sequence[j].priority_score

\* Witness of C12: a recommendation of a later gap stands before one of an
\* earlier gap in the returned content_sequence.
C12_Witness ==
    /\ result.status = "returned"
    /\ result.kind = "synthesized"
    /\ \E i, j \in 1..Len(result.path.content_sequence) :
          /\ i < j
          /\ GapPosition(result.path.content_sequence[i].for_gap)
                > GapPosition(result.path.content_sequence[j].for_gap)

FirstCandidateTooLong(k) ==
    /\ result.log[k].candidates > 0
    /\ result.log[k].selected = 0

\* C14 as stated: once the highest-scored candidate of a gap does not fit the
\* remaining budget, no recommendation of that gap or of a later gap of the
\* prioritized order is selected.
C14_StopsAtFirstMisfit ==
    result.status = "returned"
    => \A k \in 1..Len(result.log) :
          FirstCandidateTooLong(k)
          => \A j \in k..Len(result.log) : result.log[j].selected = 0

\* C14 amended: a gap whose highest-scored candidate does not fit the remaining
\* budget contributes no recommendation, and the gap after it in the
\* prioritized order is still processed; a later gap can contribute.
C14_MisfitSkipsOnlyThatGap ==
    result.status = "returned"
    => \A k \in 1..Len(result.log) :
          FirstCandidateTooLong(k)
          => /\ \A i \in 1..Len(result.path.content_sequence) :
                  result.path.content_sequence[i].for_gap # result.log[k].gap
             /\ k < Len(result.prioritized) => Len(result.log) > k

\* Witness of C14: a gap whose first candidate did not fit is followed by a
\* gap that had a recommendation selected.
C14_Witness ==
    /\ result.status = "returned"
    /\ \E k \in 1..Len(result.log) :
          /\ FirstCandidateTooLong(k)
          /\ \E j \in (k + 1)..Len(result.log) : result.log[j].selected > 0

C18_StoreErrorsPropagate ==
    (calls > 0 /\ result.store_errors > 0)
    => (result.status = "raised" /\ result.kind = "store")

\* Minutes of the candidates of the k-th processed gap that were selected.
TakenMinutes(k) == SumDur(result.log[k].taken)

\* Minutes selected when the loop over the k-th processed gap's candidates ends.
MinutesAfterGap(k) ==
    LET RECURSIVE Upto(_)
        Upto(n) == IF n = 0 THEN 0 ELSE Upto(n - 1) + TakenMinutes(n)
    IN Upto(k)

\* C22 as stated: within one gap a candidate that does not fit is skipped and
\* the candidates after it are still selected when they fit, so no candidate
\* left unselected fits the budget remaining after the gap.
C22_MisfitIsSkipped ==
    result.status = "returned"
    => \A k \in 1..Len(result.log) :
          \A i \in 1..Len(result.log[k].cands) :
             result.log[k].cands[i] \notin Range(result.log[k].taken)
             => MinutesAfterGap(k) + result.log[k].cands[i].estimated_duration > result.budget

\* C22 amended: within one gap the candidates are taken in descending score
\* order up to the first one that does not fit; that candidate and all
\* candidates after it are left out, whether they would fit or not.
C22_FirstMisfitEndsTheGap ==
    result.status = "returned"
    => \A k \in 1..Len(result.log) :
          LET c == result.log[k].cands
              t == result.log[k].taken
          IN /\ Len(t) <= Len(c)
             /\ t = SubSeq(c, 1, Len(t))
             /\ Len(t) < Len(c)
                   => MinutesAfterGap(k) + c[Len(t) + 1].estimated_duration > result.budget

\* Witness of C22: a candidate was left out although it fits the budget
\* remaining after its gap, because a higher-scored one before it did not fit.
C22_Witness ==
    /\ result.status = "returned"
    /\ \E k \in 1..Len(result.log) :
          \E i \in 1..Len(result.log[k].cands) :
             /\ i > Len(result.log[k].taken) + 1
             /\ MinutesAfterGap(k) + result.log[k].cands[i].estimated_duration <= result.budget

\* C23: the priority_order of a synthesized path lists the skill_names in the
\* order _prioritize_skill_gaps produced in this call.
C23_PriorityOrderIsPrioritizedOrder ==
    (result.status = "returned" /\ result.kind = "synthesized")
    => result.path.priority_order
          = [i \in 1..Len(result.prioritized) |-> result.prioritized[i].skill_name]

\* The gap of the latest call with this id.
GapOf(id) == CHOOSE g \in Range(result.used_gaps) : g.id = id

\* The weight the score formula gives a gap: its numeric size, or 1, 2, 3 for
\* small, medium, large.
GapWeight(gap) ==
    IF gap.gap_size.kind = "num" THEN gap.gap_size.num ELSE SizeRank(gap.gap_size)

\* The score the formula gives recommendation r for its gap.
FormulaScore(r) ==
    10 * GapWeight(GapOf(r.for_gap))
      + (IF r.estimated_duration <= 10 THEN 5
         ELSE IF r.estimated_duration <= 15 THEN 3 ELSE 0)
      + (IF r.difficulty = "intermediate" THEN 3
         ELSE IF r.difficulty = "beginner" THEN 2 ELSE 0)
      + (IF r.content_type \in {"tutorial", "practical_exercise"} THEN 2 ELSE 0)

\* C24: for every gap with a size (small, medium, large or a number) the
\* candidates found or generated for it are scored, each with 10*w plus the
\* duration, difficulty and type bonuses, and returned in descending score.
C24_ScoreFormula ==
    result.status = "returned"
    => \A k \in 1..Len(result.log) :
          GapOf(result.log[k].gap).gap_size.kind \in {"num", "str"}
          => /\ result.log[k].fail # "scoring"
             /\ \A i \in 1..Len(result.log[k].cands) :
                   result.log[k].cands[i].priority_score
                      = FormulaScore(result.log[k].cands[i])
             /\ \A i, j \in 1..Len(result.log[k].cands) :
                   i < j => result.log[k].cands[i].priority_score
                              >= result.log[k].cands[j].priority_score

\* C28: the budget of _generate_learning_recommendations is
\* max_duration_hours * 60 minutes for every provided max_duration_hours, 0
\* included, and 480 minutes only when max_duration_hours is None.
C28_BudgetIsHoursTimesSixty ==
    (calls > 0 /\ result.kind \in {"synthesized", "store", "prioritize"})
    => result.budget = (IF request.max_duration_hours.has
                        THEN request.max_duration_hours.v * 60
                        ELSE DefaultBudgetMinutes)

\* C27: for a gap the AI Text Service is called only when the Content Store
\* holds no candidate for (skill_name, difficulty); a generated item is the sole
\* candidate of its gap and is in the Content Store when it is returned.
C27_GeneratedOnlyWhenNeededAndStored ==
    calls > 0
    => \A k \in 1..Len(result.log) :
          /\ result.log[k].ai_called => result.log[k].matching = 0
          /\ (result.log[k].generated /\ result.log[k].cands # <<>>)
                => /\ Len(result.log[k].cands) = 1
                   /\ result.log[k].in_store

\* C29: a content item that was in the Content Store before the calls keeps
\* its stored description, content_text and created_at, also when it has been
\* selected into a path that was persisted.
C29_ExistingContentUntouched ==
    \A i \in 1..Len(content), k \in 1..Len(Catalog) :
       content[i].id = Catalog[k].id
       => /\ content[i].description = Catalog[k].description
          /\ content[i].content_text = Catalog[k].content_text
          /\ content[i].created_at = Catalog[k].created_at

(***************************************************************************)
(* Properties of analyze_work_artifacts / update_assessment_status         *)
(* (SpecSkills)                                                            *)
(***************************************************************************)
StatusEdges ==
    {<<"pending", "in_progress">>, <<"in_progress", "completed">>,
     <<"in_progress", "failed">>}

\* C3: every change of an assessment's status goes along pending ->
\* in_progress -> completed or in_progress -> failed; in particular a completed
\* or failed assessment keeps its status whatever analyze_work_artifacts or
\* update_assessment_status call comes later.
C3_StatusFollowsLifecycle ==
    [][\A a \in AssessmentIds :
          (assessments[a].exists /\ assessments'[a].status # assessments[a].status)
             => <<assessments[a].status, assessments'[a].status>> \in StatusEdges]_vars

\* An analyze_work_artifacts call has just ended; nothing has run since.
AnalysisEnded == skLast.op = "analyze" /\ \A w \in AllWorkers : pc[w] = "idle"

\* The skill_gaps rows inserted since the latest operation began.
NewGapRows == SubSeq(gapRows, skLast.gaps_before + 1, Len(gapRows))

AICallFailed == aiAnalysis.kind \in {"raise", "error"}

\* C4: when the AI call of analyze_work_artifacts fails (the client raises or
\* the response has error set), the call ends with the assessment failed, with
\* no skill gap created by it, and with the exception re-raised.
C4_AIFailureMarksFailed ==
    (AnalysisEnded /\ AICallFailed)
       => /\ skLast.outcome = "raised"
          /\ NewGapRows = <<>>
          /\ assessments[skLast.aid].exists => assessments[skLast.aid].status = "failed"

C4_Witness ==
    /\ AnalysisEnded
    /\ AICallFailed
    /\ skLast.aid = "a1"
    /\ assessments["a1"].status = "failed"
    /\ skLast.outcome = "raised"

\* The AI answered with text that is not the expected analysis: not JSON, JSON
\* that is no object, or an object with an entry that has no skill_name.
Unparsable ==
    \/ aiAnalysis.kind = "nonjson"
    \/ /\ aiAnalysis.kind = "json"
       /\ \/ aiAnalysis.analysis.shape = "nonobject"
          \/ \E i \in 1..Len(aiAnalysis.analysis.skills_demonstrated) :
                aiAnalysis.analysis.skills_demonstrated[i] = MISSING
          \/ \E i \in 1..Len(aiAnalysis.analysis.skill_gaps) :
                aiAnalysis.analysis.skill_gaps[i].skill_name = MISSING

\* C5: when the AI's text cannot be parsed (not JSON, or JSON of malformed
\* structure), analyze_work_artifacts does not raise: the assessment is
\* completed with overall_score 50, confidence_level 0.3 and no skills
\* evaluated, and no skill gap is created.
C5_UnparsableGivesFallback ==
    (AnalysisEnded /\ Unparsable /\ assessments[skLast.aid].exists)
       => /\ skLast.outcome = "returned"
          /\ assessments[skLast.aid].status = "completed"
          /\ assessments[skLast.aid].overall_score = Some(FallbackScore)
          /\ assessments[skLast.aid].confidence_level = Some(FallbackConfidenceTenths)
          /\ assessments[skLast.aid].skills_evaluated = <<>>
          /\ NewGapRows = <<>>

\* C6: whenever analyze_work_artifacts ends with the assessment completed, it
\* has inserted exactly one skill gap per entry of the analysis' skill_gaps,
\* in order, for the assessment's user, with the entry's gap_size, priority
\* (medium when absent), business_impact and recommended_actions and with
\* evidence_sources naming the assessment; and skills_evaluated lists the
\* skill names of skills_demonstrated in order.
C6_OneGapPerEntry ==
    (AnalysisEnded /\ skLast.outcome = "returned"
                   /\ assessments[skLast.aid].status = "completed")
       => LET analysis == perform_ai_skills_analysis(aiAnalysis).analysis
              entries == analysis.skill_gaps
          IN /\ Len(NewGapRows) = Len(entries)
             /\ \A i \in 1..Len(entries) :
                   i <= Len(NewGapRows) =>
                      /\ NewGapRows[i].user_id = assessments[skLast.aid].user_id
                      /\ NewGapRows[i].skill_name = entries[i].skill_name
                      /\ entries[i].gap_size # MISSING
                            => NewGapRows[i].gap_size = entries[i].gap_size
                      /\ NewGapRows[i].priority = Default(entries[i].priority, "medium")
                      /\ NewGapRows[i].business_impact
                            = Default(entries[i].business_impact, NULL)
                      /\ NewGapRows[i].recommended_actions
                            = Default(entries[i].recommended_actions, <<>>)
                      /\ NewGapRows[i].evidence_sources = <<skLast.aid>>
             /\ assessments[skLast.aid].skills_evaluated = analysis.skills_demonstrated

\* C15: in every state an assessment reaches through analyze_work_artifacts
\* calls alone, overall_score and confidence_level are both null or both set,
\* they are set only while status is completed, and assessment_data is non-null
\* whenever status is completed and only when status is completed or failed.
C15_ScoresOnlyWhileCompleted ==
    \A a \in AssessmentIds :
       (assessments[a].exists /\ skUpdates = 0)
       => /\ assessments[a].overall_score.has <=> assessments[a].confidence_level.has
          /\ assessments[a].overall_score.has => assessments[a].status = "completed"
          /\ assessments[a].status = "completed" => assessments[a].assessment_data # NULL
          /\ assessments[a].assessment_data # NULL
                => assessments[a].status \in {"completed", "failed"}

C17_UnknownAssessmentIsNotFound ==
    (skLast.op = "analyze" /\ skLast.aid = "a0")
    => /\ skLast.outcome = "raised"
       /\ ~assessments["a0"].exists
       /\ Len(gapRows) = skLast.gaps_before

\* C20: every row create_skill_gap has inserted into skill_gaps has priority
\* and urgency among low, medium, high and critical.
C20_StoredPriorityAndUrgencyValid ==
    \A i \in 1..Len(gapRows) :
       /\ gapRows[i].priority \in ValidPriorities
       /\ gapRows[i].urgency \in ValidPriorities

(***************************************************************************)
(* Properties of the difficulty computations                               *)
(***************************************************************************)
\* Levels on the scale beginner = 1, intermediate = 2, advanced = 3, expert = 4.
ScaleValue(level) ==
    CASE level = "beginner" -> 1 [] level = "intermediate" -> 2
      [] level = "advanced" -> 3 [] level = "expert" -> 4

RECURSIVE ScaleSum(_)
ScaleSum(d) == IF d = <<>> THEN 0 ELSE ScaleValue(Head(d)) + ScaleSum(Tail(d))

C30_ConcurrentCallsEndCompletedOrFailed ==
    (skCalls > 0 /\ \A w \in AllWorkers : pc[w] = "idle")
    => assessments["a1"].status \in {"completed", "failed"}

\* Witness of C30: two calls have overlapped and both have returned.
C30_Witness ==
    /\ skCalls = 2
    /\ \A w \in AllWorkers : pc[w] = "idle"
    /\ skLast.overlapped

=============================================================================
